---------------------------- MODULE Spec2Model ----------------------------
(***************************************************************************)
(* A model of insigniaDNS (src/insigniaDNS.py): the Record class, the      *)
(* module-level zone loading, the Resolver and the two DNS server threads. *)
(*                                                                         *)
(* Python values are modelled as follows.  An optional value (None or a    *)
(* value) is a record [some |-> FALSE] or [some |-> TRUE, v |-> value].    *)
(* A DNSLabel is the sequence of its labels, leftmost first; a raw zone    *)
(* name (a str key of ZONES) also records whether it ends with a dot.      *)
(* An ordered dict is a sequence of [key, val] records in insertion order. *)
(***************************************************************************)
EXTENDS Integers, Sequences, FiniteSets, TLC

VARIABLES
    SERIAL,     \* module constant SERIAL (line 54)
    now,        \* the wall clock, datetime.utcnow()
    call,       \* the arguments of the last Record(...) call, or None
    rec,        \* the Record built by that call, or None
    rr,         \* the RR last produced from rec by as_rr, or None
    pc,         \* position of the module-level code (startup)
    get_zones,  \* module variable get_zones: the HTTP response, or None when unbound
    zones,      \* module variable zones: the parsed entry list, or None when unbound
    idx,        \* position of the loop `for zone in zones`
    ZONES,      \* module dict ZONES (ordered, keyed by the raw name)
    resolver,   \* module variable resolver: None, or [zones |-> ordered dict keyed by DNSLabel]
    built,      \* the value of resolver.zones right after Resolver.__init__
    th,         \* per server thread: the resolve call in progress
    result      \* the outcome of the last resolve call run to completion in one step

vars == <<SERIAL, now, call, rec, rr, pc, get_zones, zones, idx, ZONES,
          resolver, built, th, result>>

-----------------------------------------------------------------------------
(* Optional values *)

None == [some |-> FALSE]

Some(x) == [some |-> TRUE, v |-> x]

\* Python truthiness of an optional integer: None and 0 are falsy.
TruthyInt(o) == o.some /\ o.v # 0

\* Python truthiness of an optional name: None and the empty name are falsy.
TruthyName(o) == o.some /\ o.v # <<>>

-----------------------------------------------------------------------------
(* dnslib: QTYPE codes, DNSLabel *)

QTYPE == [A |-> 1, NS |-> 2, CNAME |-> 5, SOA |-> 6, MX |-> 15, TXT |-> 16,
          AAAA |-> 28, ANY |-> 255]

\* TYPE_LOOKUP: rdata class -> QTYPE code
TYPE_LOOKUP == [c \in {"A", "AAAA", "CNAME", "MX", "NS", "SOA", "TXT"} |-> QTYPE[c]]

\* str.lower() on the labels used in the model
Lower(l) == CASE l = "COM" -> "com"
              [] l = "Example" -> "example"
              [] OTHER -> l

\* the case-folded form DNSLabel.__eq__ and __hash__ compare
Fold(name) == [i \in 1..Len(name) |-> Lower(name[i])]

\* DNSLabel.__eq__
LabelEq(a, b) == Fold(a) = Fold(b)

\* Python's s[-k:]: the last k items, and the whole of s when k = 0 or k >= len(s)
SliceLast(s, k) == IF k = 0 \/ k >= Len(s) THEN s
                   ELSE SubSeq(s, Len(s) - k + 1, Len(s))

\* DNSLabel.matchSuffix: DNSLabel(self.label[-len(suffix.label):]) == suffix
matchSuffix(qname, suffix) == LabelEq(SliceLast(qname, Len(suffix)), suffix)

\* DNSLabel(k) for a raw name k: the labels, a trailing dot dropped
DNSLabel(k) == k.labels

-----------------------------------------------------------------------------
(* class Record *)

\* rdata_type(*args): the rdata object of class cls built from args
RData(cls, args) == [cls |-> cls, args |-> args]

\* Record.sensible_ttl, on the record's _rtype
sensible_ttl(rtype) == IF rtype \in {QTYPE.NS, QTYPE.SOA} THEN 60 * 60 * 24 ELSE 300

\* mutant: the serial read from the clock at each construction
RecordArgs_ClockSerial(cls, args) ==
    IF cls = "SOA" /\ Len(args) = 2
    THEN args \o << <<now, 60 * 60 * 1, 60 * 60 * 3, 60 * 60 * 24, 60 * 60 * 1>> >>
    ELSE args

\* lines 112-122: SOA given two values gets the five times appended
RecordArgs(cls, args) ==
    IF cls = "SOA" /\ Len(args) = 2
    THEN args \o << <<SERIAL, 60 * 60 * 1, 60 * 60 * 3, 60 * 60 * 24, 60 * 60 * 1>> >>
    ELSE args

\* mutant: `ttl or self.sensible_ttl()`, which drops an explicit 0
RecordTtl_Falsy(rtype, ttl) == IF TruthyInt(ttl) THEN ttl.v ELSE sensible_ttl(rtype)

\* line 130: ttl=self.sensible_ttl() if ttl is None else ttl
RecordTtl(rtype, ttl) == IF ttl.some THEN ttl.v ELSE sensible_ttl(rtype)

\* Record.__init__(rdata_type, *args, rtype, rname, ttl).  rdata_type is
\* [inst |-> TRUE, rd |-> an rdata object] or [inst |-> FALSE, cls |-> a class].
RecordInit(rdata_type, args, rtype, rname, ttl) ==
    LET rtype0 == IF rdata_type.inst THEN TYPE_LOOKUP[rdata_type.rd.cls]
                  ELSE TYPE_LOOKUP[rdata_type.cls]
        rdata  == IF rdata_type.inst THEN rdata_type.rd
                  ELSE RData(rdata_type.cls, RecordArgs(rdata_type.cls, args))
        rtype1 == IF TruthyInt(rtype) THEN rtype.v ELSE rtype0
    IN  [_rtype |-> rtype1,
         _rname |-> rname,
         kwargs |-> [rdata |-> rdata, ttl |-> RecordTtl(rtype1, ttl)]]

\* Record.as_rr
as_rr(r, alt_rname) ==
    [rname |-> IF TruthyName(r._rname) THEN r._rname.v ELSE alt_rname,
     rtype |-> r._rtype,
     rdata |-> r.kwargs.rdata,
     ttl   |-> r.kwargs.ttl]

\* Record.try_rr: an RR, or None
try_rr(r, q) ==
    IF q.qtype = QTYPE.ANY \/ q.qtype = r._rtype THEN Some(as_rr(r, q.qname)) ELSE None

\* Record.is_soa
is_soa(r) == r._rtype = QTYPE.SOA


-----------------------------------------------------------------------------
(* class Resolver *)

\* dict.get on a dict keyed by DNSLabel: the value under the key equal to k
DictGet(d, k) ==
    LET hits == {i \in 1..Len(d) : LabelEq(d[i].key, k)}
    IN  IF hits = {} THEN None ELSE Some(d[CHOOSE i \in hits : TRUE].val)

\* d[k] = v on a dict keyed by DNSLabel: the value under an equal key is
\* replaced (key and position kept), a new key goes last
DictSet(d, k, v) ==
    IF \E i \in 1..Len(d) : LabelEq(d[i].key, k)
    THEN [i \in 1..Len(d) |-> IF LabelEq(d[i].key, k) THEN [key |-> d[i].key, val |-> v]
                              ELSE d[i]]
    ELSE Append(d, [key |-> k, val |-> v])

\* d[k] = v on a dict keyed by str: as DictSet, keys compared exactly
StrDictSet(d, k, v) ==
    IF \E i \in 1..Len(d) : d[i].key = k
    THEN [i \in 1..Len(d) |-> IF d[i].key = k THEN [key |-> k, val |-> v] ELSE d[i]]
    ELSE Append(d, [key |-> k, val |-> v])

\* the outcome of a resolve call: the reply's answers, or an exception raised
Returned(answers) == [raised |-> FALSE, answers |-> answers]

Raised == [raised |-> TRUE, answers |-> <<>>]

\* lines 202-205, from record i on.  try_rr gives None for a record the query
\* does not match, and the print's rr.rdata then raises AttributeError.
RECURSIVE ExactLoop(_, _, _, _)
ExactLoop(zone, q, i, answers) ==
    IF i > Len(zone) THEN Returned(answers)
    ELSE LET r == try_rr(zone[i], q)
         IN  IF ~r.some THEN Raised
             ELSE ExactLoop(zone, q, i + 1, Append(answers, r.v))

\* line 211: next(r for r in zone_records if r.is_soa), None for StopIteration
RECURSIVE FirstSoa(_, _)
FirstSoa(zone_records, j) ==
    IF j > Len(zone_records) THEN None
    ELSE IF is_soa(zone_records[j]) THEN Some(zone_records[j])
    ELSE FirstSoa(zone_records, j + 1)

\* mutant: the scan stops at the first suffix match, SOA or not
RECURSIVE FallbackLoop_StopAtSuffix(_, _, _)
FallbackLoop_StopAtSuffix(d, q, i) ==
    IF i > Len(d) THEN Returned(<<>>)
    ELSE IF matchSuffix(q.qname, d[i].key)
         THEN LET soa_record == FirstSoa(d[i].val, 1)
              IN  IF soa_record.some
                  THEN Returned(<<as_rr(soa_record.v, d[i].key)>>)
                  ELSE Returned(<<>>)
         ELSE FallbackLoop_StopAtSuffix(d, q, i + 1)

\* lines 208-216, from zone i on
RECURSIVE FallbackLoop(_, _, _)
FallbackLoop(d, q, i) ==
    IF i > Len(d) THEN Returned(<<>>)
    ELSE IF matchSuffix(q.qname, d[i].key)
         THEN LET soa_record == FirstSoa(d[i].val, 1)
              IN  IF soa_record.some
                  THEN Returned(<<as_rr(soa_record.v, d[i].key)>>)
                  ELSE FallbackLoop(d, q, i + 1)
         ELSE FallbackLoop(d, q, i + 1)

\* mutant: the fallback also runs when the exact zone gave no answer
resolve_FallbackOnNoAnswer(d, q) ==
    LET zone == DictGet(d, q.qname)
    IN  IF zone.some /\ ExactLoop(zone.v, q, 1, <<>>).answers # <<>>
        THEN ExactLoop(zone.v, q, 1, <<>>)
        ELSE FallbackLoop(d, q, 1)

\* Resolver.resolve on the zones dict d
resolve(d, q) ==
    LET zone == DictGet(d, q.qname)
    IN  IF zone.some THEN ExactLoop(zone.v, q, 1, <<>>)
        ELSE FallbackLoop(d, q, 1)

\* Resolver.__init__: {DNSLabel(k): v for k, v in ZONES.items()}, from item i on
RECURSIVE ResolverZones(_, _, _)
ResolverZones(Z, i, d) ==
    IF i > Len(Z) THEN d
    ELSE ResolverZones(Z, i + 1, DictSet(d, DNSLabel(Z[i].key), Z[i].val))

-----------------------------------------------------------------------------
(* Values the variables hold while the part of the program they belong to  *)
(* is not running                                                          *)

Threads == {"udp", "tcp"}

IdleThread == [pc |-> "idle", q |-> None, zone |-> None, i |-> 0,
               answers |-> <<>>, outcome |-> None]

RecordIdle == call = None /\ rec = None /\ rr = None

StartupIdle == pc = "off" /\ get_zones = None /\ zones = None /\ idx = 0 /\ ZONES = <<>>

ThreadsIdle == th = [t \in Threads |-> IdleThread]

-----------------------------------------------------------------------------
(* Specification SpecRecord: Record objects built and turned into RRs      *)

MaxTicks == 2

StartTimes == {1700000000, 1700000003}

\* the rdata_type argument: a class, or an rdata instance
RDataTypes ==
    {[inst |-> FALSE, cls |-> c] : c \in {"A", "NS", "SOA", "TXT"}}
    \cup {[inst |-> TRUE, rd |-> RData("SOA", <<"ns", "mail", <<7, 1, 2, 3, 4>> >>)],
          [inst |-> TRUE, rd |-> RData("NS", <<"ns">>)]}

\* the positional arguments that go with it
ArgsFor(rdata_type) ==
    IF rdata_type.inst THEN {<<>>}
    ELSE IF rdata_type.cls = "SOA"
         THEN {<<"ns", "mail">>, <<"ns", "mail", <<7, 1, 2, 3, 4>> >>}
         ELSE {<<"data">>}

RtypeArgs == {None, Some(0), Some(QTYPE.NS), Some(QTYPE.TXT)}

RnameArgs == {None, Some(<<>>), Some(<<"override", "com">>)}

TtlArgs == {None, Some(0), Some(60)}

InitRecord ==
    /\ now \in StartTimes
    /\ SERIAL = now
    /\ RecordIdle
    /\ StartupIdle
    /\ resolver = None /\ built = None /\ result = None
    /\ ThreadsIdle

\* time passes
Tick ==
    /\ now < SERIAL + MaxTicks
    /\ now' = now + 1
    /\ UNCHANGED <<SERIAL, call, rec, rr, pc, get_zones, zones, idx, ZONES,
                   resolver, built, th, result>>

\* Record(rdata_type, *args, rtype=..., rname=..., ttl=...)
NewRecord ==
    \E rdata_type \in RDataTypes, rtype \in RtypeArgs, rname \in RnameArgs, ttl \in TtlArgs :
      \E args \in ArgsFor(rdata_type) :
        /\ call' = Some([rdata_type |-> rdata_type, args |-> args, rtype |-> rtype,
                         rname |-> rname, ttl |-> ttl])
        /\ rec' = Some(RecordInit(rdata_type, args, rtype, rname, ttl))
        /\ rr' = None
        /\ UNCHANGED <<SERIAL, now, pc, get_zones, zones, idx, ZONES,
                       resolver, built, th, result>>

\* rec.as_rr(alt_rname)
MakeRR ==
    /\ rec.some
    /\ \E alt \in {<<"example", "com">>, <<"com">>} : rr' = Some(as_rr(rec.v, alt))
    /\ UNCHANGED <<SERIAL, now, call, rec, pc, get_zones, zones, idx, ZONES,
                   resolver, built, th, result>>

NextRecord == Tick \/ NewRecord \/ MakeRR

SpecRecord == InitRecord /\ [][NextRecord]_vars

\* the kind of the record a call builds: the rtype argument when truthy, else
\* the kind of the rdata class
KindOfCall(c) ==
    IF c.rtype.some /\ c.rtype.v # 0 THEN c.rtype.v
    ELSE QTYPE[IF c.rdata_type.inst THEN c.rdata_type.rd.cls ELSE c.rdata_type.cls]

\* C7: a Record built without a TTL has TTL 86400 when its kind is NS or SOA
\* and 300 otherwise; built with an explicit TTL (0 included) it has that TTL;
\* every RR later produced from the record carries the record's TTL.
C7_TtlDefaulting ==
    rec.some =>
      /\ call.v.ttl.some => rec.v.kwargs.ttl = call.v.ttl.v
      /\ ~call.v.ttl.some =>
           rec.v.kwargs.ttl = (IF KindOfCall(call.v) \in {2, 6} THEN 86400 ELSE 300)
      /\ rec.v._rtype = KindOfCall(call.v)
      /\ rr.some => rr.v.ttl = rec.v.kwargs.ttl

\* an NS-kind record built without a TTL, after an RR was produced from it
C7_Witness ==
    /\ rec.some /\ rr.some
    /\ ~call.v.ttl.some
    /\ rec.v._rtype = QTYPE.NS
    /\ rr.v.ttl = 86400

\* C7 (second case): a record built with the explicit TTL 0
C7_WitnessZero == rec.some /\ call.v.ttl = Some(0) /\ rec.v.kwargs.ttl = 0

\* C8: an SOA Record built from the class with only (primary server, mailbox)
\* has times (SERIAL, 3600, 10800, 86400, 3600), SERIAL being the value taken
\* at process start; built with all fields supplied it keeps them unchanged.
C8_SoaAutoFields ==
    /\ SERIAL \in StartTimes
    /\ (rec.some /\ ~call.v.rdata_type.inst /\ call.v.rdata_type.cls = "SOA") =>
         /\ Len(call.v.args) = 2 =>
              rec.v.kwargs.rdata =
                [cls |-> "SOA",
                 args |-> <<call.v.args[1], call.v.args[2],
                            <<SERIAL, 3600, 10800, 86400, 3600>> >>]
         /\ Len(call.v.args) = 3 =>
              rec.v.kwargs.rdata = [cls |-> "SOA", args |-> call.v.args]

\* an SOA record built with two values after the clock has moved on from the
\* process start: its serial is still SERIAL
C8_Witness ==
    /\ rec.some /\ ~call.v.rdata_type.inst /\ call.v.rdata_type.cls = "SOA"
    /\ Len(call.v.args) = 2
    /\ now > SERIAL
    /\ rec.v.kwargs.rdata.args[3][1] = SERIAL


-----------------------------------------------------------------------------
(* Specification SpecResolve: one resolve call against any zone table      *)

MaxZones == 2

MaxRecords == 2

\* the names of the zones: a zone, a zone under it and an unrelated one, none
\* of them the root
ZoneNames == {<<"com">>, <<"example", "com">>, <<"net">>}

QNames == {<<"com">>, <<"example", "com">>, <<"Example", "COM">>,
           <<"www", "example", "com">>, <<"www", "Example", "COM">>,
           <<"sub", "net">>, <<"org">>}

\* A, SOA, MX, ANY and a type no record class has
QTypes == {QTYPE.A, QTYPE.SOA, QTYPE.MX, QTYPE.ANY, 65280}

Queries == [qname : QNames, qtype : QTypes]

Override == <<"alias", "org">>

Cls(c) == [inst |-> FALSE, cls |-> c]

\* the records zone tables are made of
RecordUniverse ==
    {RecordInit(Cls("A"), <<"10.0.0.1">>, None, None, None),
     RecordInit(Cls("A"), <<"10.0.0.2">>, None, Some(Override), None),
     RecordInit(Cls("TXT"), <<"hello">>, None, None, None),
     RecordInit(Cls("SOA"), <<"ns", "mail">>, None, None, None),
     RecordInit(Cls("SOA"), <<"ns2", "mail">>, None, Some(Override), Some(60))}

RECURSIVE SumTo(_, _)
SumTo(l, k) == IF k = 0 THEN 0 ELSE l[k] + SumTo(l, k - 1)

\* the table with key names[i] holding the next lens[i] records of flat
ZoneTable(names, lens, flat) ==
    [i \in 1..Len(names) |->
        [key |-> names[i],
         val |-> SubSeq(flat, SumTo(lens, i - 1) + 1, SumTo(lens, i))]]

\* every table of up to maxZones zones with distinct names and up to
\* maxRecords records in all, the records taken from universe
ZoneTables(universe, maxZones, maxRecords) ==
    UNION {
      UNION {
        UNION { {ZoneTable(names, lens, flat) :
                   flat \in [1..SumTo(lens, k) -> universe]} :
                lens \in {l \in [1..k -> 0..maxRecords] : SumTo(l, k) <= maxRecords} } :
        names \in {n \in [1..k -> ZoneNames] :
                     \A i, j \in 1..k : i # j => ~LabelEq(n[i], n[j])} } :
      k \in 0..maxZones }

InitResolve ==
    /\ SERIAL \in {1700000000}
    /\ now = SERIAL
    /\ RecordIdle
    /\ StartupIdle
    /\ built \in {Some(t) : t \in ZoneTables(RecordUniverse, MaxZones, MaxRecords)}
    /\ resolver = Some([zones |-> built.v])
    /\ result = None
    /\ ThreadsIdle

\* resolver.resolve(request, handler) for a request with question q.  resolve
\* keeps nothing from one call to the next, so a behaviour holds one call.
Resolve ==
    \E q \in Queries :
        /\ result = None
        /\ result' = Some([q |-> q, out |-> resolve(resolver.v.zones, q)])
        /\ UNCHANGED <<SERIAL, now, call, rec, rr, pc, get_zones, zones, idx, ZONES,
                       resolver, built, th>>

NextResolve == Resolve

SpecResolve == InitResolve /\ [][NextResolve]_vars


\* the zone of table d whose name equals qname, as a set of at most one index
ExactZone(d, qname) == {i \in 1..Len(d) : Fold(d[i].key) = Fold(qname)}

\* the RR a record yields under owner name `owner` unless it has its own
Answer(r, owner) ==
    [rname |-> IF r._rname.some /\ r._rname.v # <<>> THEN r._rname.v ELSE owner,
     rtype |-> r._rtype, rdata |-> r.kwargs.rdata, ttl |-> r.kwargs.ttl]

\* the records of recs a query of type qtype asks for, in stored order, as RRs
RECURSIVE Selected(_, _, _)
Selected(recs, qname, qtype) ==
    IF recs = <<>> THEN <<>>
    ELSE (IF qtype = 255 \/ qtype = Head(recs)._rtype
          THEN <<Answer(Head(recs), qname)>> ELSE <<>>)
         \o Selected(Tail(recs), qname, qtype)

\* C1: when qname has an exact zone entry, resolve completes without raising
\* and answers exactly the zone's records the query type selects, in stored
\* order, each owned by its override or else by qname.
C1_ExactMatch ==
    result.some =>
      \A i \in ExactZone(built.v, result.v.q.qname) :
        /\ ~result.v.out.raised
        /\ result.v.out.answers =
             Selected(built.v[i].val, result.v.q.qname, result.v.q.qtype)

\* z is a label-suffix of q: the last Len(z) labels of q are those of z
IsLabelSuffix(z, q) ==
    /\ Len(z) <= Len(q)
    /\ \A i \in 1..Len(z) : Lower(z[i]) = Lower(q[Len(q) - Len(z) + i])

HasSoa(recs) == \E j \in 1..Len(recs) : recs[j]._rtype = 6

\* the zones of d a fallback for qname may answer from
SoaZones(d, qname) == {i \in 1..Len(d) : IsLabelSuffix(d[i].key, qname) /\ HasSoa(d[i].val)}

Least(S) == CHOOSE i \in S : \A j \in S : i <= j

\* the first SOA record of recs
LeadSoa(recs) == recs[Least({j \in 1..Len(recs) : recs[j]._rtype = 6})]

C2_WitnessZoneOwner ==
    /\ result.some
    /\ result.v.q.qname = <<"www", "example", "com">>
    /\ Len(built.v) = 2
    /\ built.v[1].key = <<"com">> /\ ~HasSoa(built.v[1].val)
    /\ built.v[2].key = <<"example", "com">> /\ HasSoa(built.v[2].val)
    /\ LeadSoa(built.v[2].val)._rname = None
    /\ Len(result.v.out.answers) = 1
    /\ result.v.out.answers[1].rname = <<"example", "com">>

\* the shadowing case: com with SOA built before example.com answers for
\* www.example.com
C2_WitnessShadow ==
    /\ result.some
    /\ result.v.q.qname = <<"www", "example", "com">>
    /\ Len(built.v) = 2
    /\ built.v[1].key = <<"com">> /\ HasSoa(built.v[1].val)
    /\ built.v[2].key = <<"example", "com">> /\ HasSoa(built.v[2].val)
    /\ Len(result.v.out.answers) = 1
    /\ result.v.out.answers[1].rname = <<"com">>

\* C9: when qname has an exact zone entry, every answer of resolve is the RR
\* of a record of qname's own zone, whatever SOA an outer zone holds.
C9_ExactExcludesFallback ==
    result.some =>
      \A i \in ExactZone(built.v, result.v.q.qname) :
        \A a \in 1..Len(result.v.out.answers) :
          \E j \in 1..Len(built.v[i].val) :
            result.v.out.answers[a] = Answer(built.v[i].val[j], result.v.q.qname)

\* example.com holds only an A record, is queried for SOA, and com holds an
\* SOA: the call is over and carries no answer
C9_Witness ==
    /\ result.some
    /\ result.v.q = [qname |-> <<"example", "com">>, qtype |-> 6]
    /\ \E i, k \in 1..Len(built.v) :
         /\ built.v[i].key = <<"example", "com">>
         /\ Len(built.v[i].val) = 1 /\ built.v[i].val[1]._rtype = 1
         /\ built.v[k].key = <<"com">> /\ HasSoa(built.v[k].val)
    /\ result.v.out.answers = <<>>


-----------------------------------------------------------------------------
(* Specification SpecThreads: resolve calls running on the UDP and the TCP *)
(* server threads against one shared Resolver.  A thread's call advances   *)
(* one dict lookup or one loop iteration at a time; its reply is its own   *)
(* (request.reply()), its zone and zone_records are references into        *)
(* resolver.zones.                                                         *)

ThreadRecords ==
    {RecordInit(Cls("A"), <<"10.0.0.1">>, None, None, None),
     RecordInit(Cls("SOA"), <<"ns", "mail">>, None, None, None)}

ThreadQueries == [qname : {<<"example", "com">>, <<"www", "example", "com">>},
                  qtype : {QTYPE.A, QTYPE.ANY}]

InitThreads ==
    /\ SERIAL \in {1700000000}
    /\ now = SERIAL
    /\ RecordIdle
    /\ StartupIdle
    /\ built \in {Some(t) : t \in ZoneTables(ThreadRecords, MaxZones, MaxRecords)}
    /\ resolver = Some([zones |-> built.v])
    /\ result = None
    /\ ThreadsIdle

\* the index in d of the key equal to k, for the reference zones.get returns
DictIndex(d, k) ==
    LET hits == {i \in 1..Len(d) : LabelEq(d[i].key, k)}
    IN  IF hits = {} THEN None ELSE Some(CHOOSE i \in hits : TRUE)

\* line 198: a request arrives on thread t; reply = request.reply()
Begin(t) ==
    \E q \in ThreadQueries :
        /\ th[t].pc = "idle"
        /\ th' = [th EXCEPT ![t] = [pc |-> "get", q |-> Some(q), zone |-> None, i |-> 0,
                                    answers |-> <<>>, outcome |-> None]]
        /\ UNCHANGED <<SERIAL, now, call, rec, rr, pc, get_zones, zones, idx, ZONES,
                       resolver, built, result>>

\* lines 199-201: zone = self.zones.get(request.q.qname) and the branch on it
Get(t) ==
    /\ th[t].pc = "get"
    /\ LET zone == DictIndex(resolver.v.zones, th[t].q.v.qname)
       IN  th' = [th EXCEPT ![t].zone = zone,
                            ![t].i = 1,
                            ![t].pc = IF zone.some THEN "exact" ELSE "fallback"]
    /\ UNCHANGED <<SERIAL, now, call, rec, rr, pc, get_zones, zones, idx, ZONES,
                   resolver, built, result>>

\* mutant: the loop consumes the zone's list (zone.pop(0)) as it answers
ExactStep_Consuming(t) ==
    /\ th[t].pc = "exact"
    /\ LET zone == resolver.v.zones[th[t].zone.v].val
       IN  IF zone = <<>>
           THEN /\ th' = [th EXCEPT ![t].pc = "done",
                                    ![t].outcome = Some(Returned(th[t].answers))]
                /\ UNCHANGED resolver
           ELSE LET r == try_rr(Head(zone), th[t].q.v)
                IN  /\ th' = IF ~r.some
                             THEN [th EXCEPT ![t].pc = "done", ![t].outcome = Some(Raised)]
                             ELSE [th EXCEPT ![t].answers = Append(th[t].answers, r.v)]
                    /\ resolver' = Some([zones |->
                         [resolver.v.zones EXCEPT ![th[t].zone.v].val = Tail(zone)]])
    /\ UNCHANGED <<SERIAL, now, call, rec, rr, pc, get_zones, zones, idx, ZONES,
                   built, result>>

\* lines 202-205: one iteration of `for zone_records in zone`, or its end
ExactStep(t) ==
    /\ th[t].pc = "exact"
    /\ LET zone == resolver.v.zones[th[t].zone.v].val
           i == th[t].i
       IN  IF i > Len(zone)
           THEN th' = [th EXCEPT ![t].pc = "done",
                                 ![t].outcome = Some(Returned(th[t].answers))]
           ELSE LET r == try_rr(zone[i], th[t].q.v)
                IN  IF ~r.some
                    THEN th' = [th EXCEPT ![t].pc = "done", ![t].outcome = Some(Raised)]
                    ELSE th' = [th EXCEPT ![t].answers = Append(th[t].answers, r.v),
                                          ![t].i = i + 1]
    /\ UNCHANGED <<SERIAL, now, call, rec, rr, pc, get_zones, zones, idx, ZONES,
                   resolver, built, result>>

\* lines 208-216: one iteration of `for zone_label, zone_records in
\* self.zones.items()`, or its end
FallbackStep(t) ==
    /\ th[t].pc = "fallback"
    /\ LET d == resolver.v.zones
           i == th[t].i
       IN  IF i > Len(d)
           THEN th' = [th EXCEPT ![t].pc = "done",
                                 ![t].outcome = Some(Returned(th[t].answers))]
           ELSE LET soa_record == FirstSoa(d[i].val, 1)
                IN  IF matchSuffix(th[t].q.v.qname, d[i].key) /\ soa_record.some
                    THEN th' = [th EXCEPT
                                  ![t].pc = "done",
                                  ![t].outcome =
                                     Some(Returned(Append(th[t].answers,
                                                          as_rr(soa_record.v, d[i].key))))]
                    ELSE th' = [th EXCEPT ![t].i = i + 1]
    /\ UNCHANGED <<SERIAL, now, call, rec, rr, pc, get_zones, zones, idx, ZONES,
                   resolver, built, result>>

\* line 217 and after: the outcome goes to the transport; the thread is free
Return(t) ==
    /\ th[t].pc = "done"
    /\ th' = [th EXCEPT ![t] = IdleThread]
    /\ UNCHANGED <<SERIAL, now, call, rec, rr, pc, get_zones, zones, idx, ZONES,
                   resolver, built, result>>

NextThreads ==
    \E t \in Threads : Begin(t) \/ Get(t) \/ ExactStep(t) \/ FallbackStep(t) \/ Return(t)

SpecThreads == InitThreads /\ [][NextThreads]_vars

\* C6: whatever the interleaving of the two threads, the shared zone table
\* equals the table built at construction, every finished resolve call has
\* the outcome the call has when run alone on that table, and two finished
\* calls with the same query have the same outcome.
C6_ReadOnlySharing ==
    /\ resolver = Some([zones |-> built.v])
    /\ \A t \in Threads :
         th[t].pc = "done" => th[t].outcome = Some(resolve(built.v, th[t].q.v))
    /\ \A t, u \in Threads :
         (th[t].pc = "done" /\ th[u].pc = "done" /\ th[t].q = th[u].q)
            => th[t].outcome = th[u].outcome

\* the two threads inside resolve for the same query at once: one past the
\* first record of the exact zone, the other finished with two answers
C6_Witness ==
    /\ th["udp"].pc = "exact" /\ th["udp"].i = 2 /\ Len(th["udp"].answers) = 1
    /\ th["tcp"].pc = "done" /\ th["tcp"].q = th["udp"].q
    /\ th["tcp"].outcome.v.raised = FALSE
    /\ Len(th["tcp"].outcome.v.answers) = 2


-----------------------------------------------------------------------------
(* Specification SpecStartup: the module-level code, line 157 to the end   *)
(*                                                                         *)
(* pc is the statement about to run: "fetch" (159-172), "parse" (173-182), *)
(* "load" (184-190), "resolver" (220), "servers" (234-260), "threads"      *)
(* (262-264), "serving" (266-268); "exited" after exit(1), "crashed" after *)
(* an exception nothing catches, "stopped" after KeyboardInterrupt.        *)

MaxEntries == 3

Raw(labels, dot) == [labels |-> labels, dot |-> dot]

Entry(type, name, value) == [type |-> type, name |-> name, value |-> value]

\* the entries the fetched list is made of: well-formed ones (a repeated
\* name, a name differing in case and trailing dot, a pointer) and
\* malformed ones
EntryUniverse ==
    {Entry(Some("a"), Some(Raw(<<"example", "com">>, FALSE)), Some("10.0.0.1")),
     Entry(Some("a"), Some(Raw(<<"example", "com">>, FALSE)), Some("10.0.0.2")),
     Entry(Some("a"), Some(Raw(<<"Example", "COM">>, TRUE)), Some("10.0.0.3")),
     Entry(Some("p"), Some(Raw(<<"www", "example", "com">>, FALSE)), Some("host.insig.uk")),
     Entry(Some("x"), Some(Raw(<<"com">>, FALSE)), Some("10.0.0.1")),
     Entry(Some("a"), Some(Raw(<<"com">>, FALSE)), Some("bad")),
     Entry(None, Some(Raw(<<"com">>, FALSE)), Some("10.0.0.1")),
     Entry(Some("a"), None, Some("10.0.0.1")),
     Entry(Some("a"), Some(Raw(<<"com">>, FALSE)), None)}

EntryLists == UNION {[1..k -> EntryUniverse] : k \in 0..MaxEntries}

\* what the response body may be: text that is no JSON, a JSON number, a JSON
\* object (given by its keys), or a JSON list of entries
Bodies ==
    {[kind |-> "garbage"], [kind |-> "number"],
     [kind |-> "object", keys |-> <<>>], [kind |-> "object", keys |-> <<"zones">>]}
    \cup {[kind |-> "list", entries |-> es] : es \in EntryLists}

\* line 176: the five pointer entries the text replacement puts before "]"
ExtraEntries ==
    <<Entry(Some("p"), Some(Raw(<<"macs", "part", "xboxlive", "com">>, FALSE)),
            Some("macs.insig.uk")),
      Entry(Some("p"), Some(Raw(<<"as", "part", "xboxlive", "com">>, FALSE)),
            Some("as.insig.uk")),
      Entry(Some("p"), Some(Raw(<<"tgs", "part", "xboxlive", "com">>, FALSE)),
            Some("tgs.insig.uk")),
      Entry(Some("p"), Some(Raw(<<"xds", "part", "xboxlive", "com">>, FALSE)),
            Some("xds.xboxlive.com")),
      Entry(Some("p"), Some(Raw(<<"insignia", "part", "live">>, FALSE)),
            Some("insignia.live"))>>

\* lines 174-178: loads(text.replace("]", ',{...},...]')), None for ValueError.
\* The replacement turns "[]" into "[,{...}]", which is no JSON.
ParseBody(body) ==
    CASE body.kind = "garbage" -> None
      [] body.kind = "number" -> Some([kind |-> "number"])
      [] body.kind = "object" -> Some([kind |-> "object", items |-> body.keys])
      [] body.kind = "list" ->
           IF body.entries = <<>> THEN None
           ELSE Some([kind |-> "list", items |-> body.entries \o ExtraEntries])

\* dnslib A(value): whether the dotted quad parses
AddrParses(value) == value \in {"10.0.0.1", "10.0.0.2", "10.0.0.3", "10.0.0.9"}

\* socket.gethostbyname: an address, or None for socket.gaierror
HostOutcomes == {Some("10.0.0.9"), None}

Crash == [crash |-> TRUE, ZONES |-> <<>>]

Stored(Z) == [crash |-> FALSE, ZONES |-> Z]

ARecord(value) == RecordInit(Cls("A"), <<value>>, None, None, None)

\* mutant: the record is appended to the bucket the name already has
Assign_Append(Z, name, value) ==
    IF \E i \in 1..Len(Z) : Z[i].key = name
    THEN [i \in 1..Len(Z) |->
            IF Z[i].key = name
            THEN [key |-> name, val |-> Append(Z[i].val, ARecord(value))]
            ELSE Z[i]]
    ELSE Append(Z, [key |-> name, val |-> <<ARecord(value)>>])

\* lines 186 and 188: ZONES[zone["name"]] = [Record(A, value)]
Assign(Z, name, value) == StrDictSet(Z, name, <<ARecord(value)>>)

\* lines 185-188 for one item of the loop; host is what gethostbyname gives
LoadEntry(Z, zone, host) ==
    IF ~zone.type.some THEN Crash
    ELSE IF zone.type.v = "a"
         THEN IF ~zone.value.some \/ ~AddrParses(zone.value.v) \/ ~zone.name.some
              THEN Crash
              ELSE Stored(Assign(Z, zone.name.v, zone.value.v))
    ELSE IF zone.type.v = "p"
         THEN IF ~zone.value.some \/ ~host.some \/ ~zone.name.some
              THEN Crash
              ELSE Stored(Assign(Z, zone.name.v, host.v))
    ELSE Stored(Z)

StartupQueries ==
    [qname : {<<"example", "com">>, <<"www", "EXAMPLE", "com">>,
              <<"as", "part", "xboxlive", "com">>, <<"part", "xboxlive", "com">>,
              <<"x", "example", "com">>},
     qtype : {QTYPE.A, QTYPE.SOA, QTYPE.ANY}]

InitStartup ==
    /\ now \in {1700000000}
    /\ SERIAL = now
    /\ RecordIdle
    /\ pc = "fetch" /\ get_zones = None /\ zones = None /\ idx = 0 /\ ZONES = <<>>
    /\ resolver = None /\ built = None /\ result = None
    /\ ThreadsIdle

\* lines 159-172: the GET succeeds; or times out, which only prints; or fails
\* otherwise, which exits
Fetch ==
    /\ pc = "fetch"
    /\ \/ \E body \in Bodies : get_zones' = Some(body) /\ pc' = "parse"
       \/ get_zones' = None /\ pc' = "parse"
       \/ get_zones' = None /\ pc' = "exited"
    /\ UNCHANGED <<SERIAL, now, call, rec, rr, zones, idx, ZONES,
                   resolver, built, th, result>>

\* lines 173-182: get_zones unbound is a NameError, which nothing catches; a
\* ValueError only prints and leaves zones unbound
Parse ==
    /\ pc = "parse"
    /\ IF ~get_zones.some
       THEN pc' = "crashed" /\ zones' = zones
       ELSE pc' = "load" /\ zones' = ParseBody(get_zones.v)
    /\ idx' = 1
    /\ UNCHANGED <<SERIAL, now, call, rec, rr, get_zones, ZONES,
                   resolver, built, th, result>>

\* lines 184-190: the start, one iteration or the end of `for zone in zones`.
\* zones unbound is a NameError, a number is not iterable and the key of an
\* object is a str, not an entry: a TypeError.
LoadStep ==
    /\ pc = "load"
    /\ IF ~zones.some \/ zones.v.kind = "number"
       THEN pc' = "crashed" /\ UNCHANGED <<idx, ZONES>>
       ELSE IF idx > Len(zones.v.items)
       THEN pc' = "resolver" /\ UNCHANGED <<idx, ZONES>>
       ELSE IF zones.v.kind = "object"
       THEN pc' = "crashed" /\ UNCHANGED <<idx, ZONES>>
       ELSE \E host \in HostOutcomes :
              LET o == LoadEntry(ZONES, zones.v.items[idx], host)
              IN  IF o.crash
                  THEN pc' = "crashed" /\ UNCHANGED <<idx, ZONES>>
                  ELSE pc' = "load" /\ idx' = idx + 1 /\ ZONES' = o.ZONES
    /\ UNCHANGED <<SERIAL, now, call, rec, rr, get_zones, zones,
                   resolver, built, th, result>>

\* line 220: resolver = Resolver()
MakeResolver ==
    /\ pc = "resolver"
    /\ resolver' = Some([zones |-> ResolverZones(ZONES, 1, <<>>)])
    /\ built' = Some(resolver'.v.zones)
    /\ pc' = "servers"
    /\ UNCHANGED <<SERIAL, now, call, rec, rr, get_zones, zones, idx, ZONES, th, result>>

\* lines 234-260: the two DNSServer objects bind port 53; PermissionError
\* exits, another OSError is not caught
MakeServers ==
    /\ pc = "servers"
    /\ pc' \in {"threads", "exited", "crashed"}
    /\ UNCHANGED <<SERIAL, now, call, rec, rr, get_zones, zones, idx, ZONES,
                   resolver, built, th, result>>

\* lines 262-264: s.start_thread() for both servers
StartThreads ==
    /\ pc = "threads"
    /\ pc' = "serving"
    /\ UNCHANGED <<SERIAL, now, call, rec, rr, get_zones, zones, idx, ZONES,
                   resolver, built, th, result>>

\* a server thread answers a request: resolver.resolve(request, handler)
Serve ==
    /\ pc = "serving"
    /\ \E q \in StartupQueries :
         result' = Some([q |-> q, out |-> resolve(resolver.v.zones, q)])
    /\ UNCHANGED <<SERIAL, now, call, rec, rr, pc, get_zones, zones, idx, ZONES,
                   resolver, built, th>>

\* lines 269-273: KeyboardInterrupt stops the servers
Stop ==
    /\ pc = "serving"
    /\ pc' = "stopped"
    /\ UNCHANGED <<SERIAL, now, call, rec, rr, get_zones, zones, idx, ZONES,
                   resolver, built, th, result>>

NextStartup ==
    Fetch \/ Parse \/ LoadStep \/ MakeResolver \/ MakeServers \/ StartThreads
    \/ Serve \/ Stop

SpecStartup == InitStartup /\ [][NextStartup]_vars


\* the items of the parsed input that are entries (an object has keys only)
InputEntries == IF zones.some /\ zones.v.kind = "list" THEN zones.v.items ELSE <<>>

\* Resolver() has run
Constructed == pc \in {"servers", "threads", "serving", "stopped"}

\* the loading loop has run to its end
Loaded == pc = "resolver" \/ Constructed

\* an entry of the address or the pointer kind
IsZoneEntry(e) == e.type.some /\ e.type.v \in {"a", "p"}

\* the A record an entry stands for; a pointer's host resolves to 10.0.0.9
RecordOf(e) ==
    [_rtype |-> 1, _rname |-> None,
     kwargs |-> [rdata |-> [cls |-> "A",
                            args |-> <<IF e.type.v = "a" THEN e.value.v ELSE "10.0.0.9">>],
                 ttl |-> 300]]

\* the records of the entries of es named n (case and trailing dot apart), in order
RECURSIVE RecordsNamed(_, _)
RecordsNamed(es, n) ==
    IF es = <<>> THEN <<>>
    ELSE (IF IsZoneEntry(Head(es)) /\ Fold(Head(es).name.v.labels) = n
          THEN <<RecordOf(Head(es))>> ELSE <<>>)
         \o RecordsNamed(Tail(es), n)

\* C3: once the table is constructed, the list under each normalized name
\* holds one A record per input entry carrying that name, in input order,
\* and there is one bucket per distinct normalized name.
C3_ConstructionAppends ==
    Constructed =>
      /\ \A i \in 1..Len(InputEntries) :
           IsZoneEntry(InputEntries[i]) =>
             LET n == Fold(InputEntries[i].name.v.labels)
             IN  \E b \in 1..Len(resolver.v.zones) :
                   /\ Fold(resolver.v.zones[b].key) = n
                   /\ resolver.v.zones[b].val = RecordsNamed(InputEntries, n)
      /\ \A b, c \in 1..Len(resolver.v.zones) :
           b # c => Fold(resolver.v.zones[b].key) # Fold(resolver.v.zones[c].key)

\* an entry construction must refuse
Malformed(e) ==
    \/ ~e.type.some \/ ~e.name.some \/ ~e.value.some
    \/ e.type.v \notin {"a", "p"}
    \/ e.type.v = "a" /\ e.value.v \notin {"10.0.0.1", "10.0.0.2", "10.0.0.3"}

\* C4: when the loading loop runs to its end, no entry of the input was
\* malformed and every entry has its record in the table.
C4_NoEntryDropped ==
    Loaded =>
      \A i \in 1..Len(InputEntries) :
        /\ ~Malformed(InputEntries[i])
        /\ \E b \in 1..Len(ZONES) :
             /\ ZONES[b].key = InputEntries[i].name.v
             /\ \E j \in 1..Len(ZONES[b].val) : ZONES[b].val[j] = RecordOf(InputEntries[i])

\* C5 without its clause on an empty table: Resolver() and the servers come
\* only after a fetch that returned, a text that parsed and a loop that ran
\* over every item, and the resolver's table is the one built from ZONES.
C5_NoPartialTable ==
    (Constructed \/ resolver.some) =>
      /\ get_zones.some
      /\ zones.some /\ zones = ParseBody(get_zones.v)
      /\ zones.v.kind \in {"list", "object"}
      /\ idx = Len(zones.v.items) + 1
      /\ resolver.some
      /\ \A b \in 1..Len(resolver.v.zones) :
           \E i \in 1..Len(InputEntries) :
             /\ IsZoneEntry(InputEntries[i])
             /\ Fold(InputEntries[i].name.v.labels) = Fold(resolver.v.zones[b].key)
      /\ \A i \in 1..Len(InputEntries) :
           IsZoneEntry(InputEntries[i]) =>
             \E b \in 1..Len(resolver.v.zones) :
               Fold(InputEntries[i].name.v.labels) = Fold(resolver.v.zones[b].key)

\* C5: Resolver() and the servers come only after a fetch that returned, a
\* text that parsed and a loop that ran over every item; the table the
\* servers get is neither partially built nor empty.
C5_StartupSafety ==
    /\ C5_NoPartialTable
    /\ Constructed => resolver.v.zones # <<>>

\* C10: every zone the loading loop stores holds exactly one record, of kind
\* A, and so does every zone of the Resolver; a reply of the running program
\* carries at most one answer, an A record, and none when the queried name
\* has no exact zone entry.
C10_OneARecordPerZone ==
    /\ \A b \in 1..Len(ZONES) : Len(ZONES[b].val) = 1 /\ ZONES[b].val[1]._rtype = 1
    /\ resolver.some =>
         \A b \in 1..Len(resolver.v.zones) :
           /\ Len(resolver.v.zones[b].val) = 1
           /\ resolver.v.zones[b].val[1]._rtype = 1
    /\ result.some =>
         /\ Len(result.v.out.answers) <= 1
         /\ \A a \in 1..Len(result.v.out.answers) : result.v.out.answers[a].rtype = 1
         /\ ExactZone(resolver.v.zones, result.v.q.qname) = {} =>
              result.v.out = [raised |-> FALSE, answers |-> <<>>]

\* the input names example.com twice, the running program holds one record
\* under it, and a query for x.example.com, which has no zone of its own, was
\* answered with no answers
C10_Witness ==
    /\ pc = "serving"
    /\ \E i, j \in 1..Len(InputEntries) :
         /\ i < j
         /\ IsZoneEntry(InputEntries[i]) /\ IsZoneEntry(InputEntries[j])
         /\ InputEntries[i].name.v.labels = <<"example", "com">>
         /\ InputEntries[j].name.v.labels = <<"example", "com">>
    /\ \E b \in 1..Len(resolver.v.zones) :
         resolver.v.zones[b].key = <<"example", "com">> /\ Len(resolver.v.zones[b].val) = 1
    /\ result.some
    /\ result.v.q.qname = <<"x", "example", "com">>
    /\ result.v.out = [raised |-> FALSE, answers |-> <<>>]

=============================================================================
